---- MODULE Spec2Model ----
(***************************************************************************)
(* Model of src/update_journey_data.py: the TfL journey fetch loop, the    *)
(* per-journey processing with the Darwin live-board lookup, and the write *)
(* of the output document.                                                 *)
(*                                                                         *)
(* Text values are records [k, v]:                                         *)
(*   [k |-> "hm",  v |-> m]   the string "HH:MM" of minute-of-day m        *)
(*   [k |-> "hm*", v |-> m]   the string "HH:MM*" (Darwin's uncertain time)*)
(*   [k |-> "txt", v |-> s]   any other string s                           *)
(*   [k |-> "none"]           Python None / a missing attribute            *)
(* A TfL date-time "YYYY-MM-DDTHH:MM:SS" is [k |-> "dt", day, hm, sec].    *)
(***************************************************************************)
EXTENDS Integers, Sequences, FiniteSets, TLC

VARIABLES
    pc,              \* position of the running program
    weekend,         \* environment: whether the run happens on Saturday/Sunday
    DARWIN_SESSION,  \* module global: TRUE when a Darwin session exists
    boards,          \* environment: Darwin's answer to get_departures per (from, to)
    journeys,        \* fetch_and_process_tfl_data: the list returned by TfL
    idx,             \* fetch_and_process_tfl_data: enumerate(journeys, 1) position
    processed,       \* fetch_and_process_tfl_data: the list being built
    document,        \* content of OUTPUT_FILE
    journey,         \* process_journey: its argument
    result,          \* process_journey: its return value
    query,           \* get_darwin_live_data: its arguments
    live             \* get_darwin_live_data: its return value

vars == <<pc, weekend, DARWIN_SESSION, boards, journeys, idx, processed,
          document, journey, result, query, live>>

---------------------------------------------------------------------------
(* Bounds of the model *)
MaxLegs == 4
MaxRoutes == 5
MaxBoard == 2

(* Program constants *)
NUM_JOURNEYS == 4
MinutesPerDay == 1440

---------------------------------------------------------------------------
(* Values *)
None == [k |-> "none"]
HM(m) == [k |-> "hm", v |-> m]
Starred(m) == [k |-> "hm*", v |-> m]
Txt(s) == [k |-> "txt", v |-> s]
DT(d, m, s) == [k |-> "dt", day |-> d, hm |-> m, sec |-> s]
At(h, m) == h * 60 + m

ValueError == [exc |-> "ValueError"]
IsRaise(r) == "exc" \in DOMAIN r

(* datetime.strptime(s, "%H:%M"): minute of day, or -1 for ValueError *)
Bad == -1
ParseHM(s) == IF s.k = "hm" THEN s.v ELSE Bad

(* s.split('*')[0] on a Darwin time *)
SplitStar(s) == IF s.k = "hm*" THEN HM(s.v) ELSE s

(* datetime.strptime(s, TFL_TIME_FORMAT).strftime("%H:%M"): the date and the
   seconds are dropped; ValueError when s is not a date-time *)
TflToHM(s) == IF s.k = "dt" THEN HM(s.hm) ELSE ValueError

(* Python truthiness of an optional string *)
Truthy(s) == s.k # "none" /\ s # Txt("")

STREATHAM_COMMON_CRS == "SRC"
IMPERIAL_WHARF_CRS == "IMW"
CLAPHAM_JUNCTION_CRS == "CLJ"

SC == "Streatham Common Rail Station"
IW == "Imperial Wharf Rail Station"
CJ == "Clapham Junction Rail Station"
BAL == "Balham Rail Station"

CRS_MAP ==
    (SC :> STREATHAM_COMMON_CRS) @@ (IW :> IMPERIAL_WHARF_CRS)
    @@ (CJ :> CLAPHAM_JUNCTION_CRS)

(* CRS_MAP.get(name) *)
CrsGet(name) == IF name \in DOMAIN CRS_MAP THEN Txt(CRS_MAP[name]) ELSE None

(* name.replace(" Rail Station", "") *)
StripRailStation(name) ==
    CASE name = SC -> "Streatham Common"
      [] name = IW -> "Imperial Wharf"
      [] name = CJ -> "Clapham Junction"
      [] name = BAL -> "Balham"
      [] OTHER -> name

RAIL_MODES == {"overground", "national-rail"}
TBC == Txt("TBC")

---------------------------------------------------------------------------
(* get_darwin_live_data *)

BoardError == [k |-> "error"]
Board(services) == [k |-> "board", train_services |-> services]

(* The calling-point loop: the first point whose crs is the destination *)
RECURSIVE ScanPoints(_, _, _)
ScanPoints(points, i, destination_crs) ==
    IF i > Len(points)
    THEN [liveArrival |-> Txt("Unknown"), arrivalPlatform |-> TBC]
    ELSE IF points[i].crs = destination_crs
         THEN [liveArrival |->
                   IF Truthy(points[i].eta) THEN SplitStar(points[i].eta)
                   ELSE points[i].sta,
               arrivalPlatform |->
                   IF Truthy(points[i].platform) THEN points[i].platform
                   ELSE TBC]
         ELSE ScanPoints(points, i + 1, destination_crs)

(* The body run for a service whose scheduled time equals the departure *)
MatchedService(service, destination_crs) ==
    LET departure_platform ==
            IF Truthy(service.platform) THEN service.platform ELSE TBC
        arrival ==
            IF service.details.k = "details"
            THEN ScanPoints(service.details.calling_point, 1, destination_crs)
            ELSE [liveArrival |-> Txt("Unknown"), arrivalPlatform |-> TBC]
    IN  [liveArrival |-> arrival.liveArrival,
         departurePlatform |-> departure_platform,
         arrivalPlatform |-> arrival.arrivalPlatform]

(* The comparison that makes a live service the scheduled departure's *)
TimeMatchesWithin2(darwin_scheduled_time, tfl_dep_time) ==
    /\ darwin_scheduled_time - tfl_dep_time <= 2
    /\ tfl_dep_time - darwin_scheduled_time <= 2

TimeMatches(darwin_scheduled_time, tfl_dep_time) ==
    darwin_scheduled_time = tfl_dep_time

(* The loop over board.train_services *)
RECURSIVE ScanBoard(_, _, _, _)
ScanBoard(services, i, tfl_dep_time, destination_crs) ==
    IF i > Len(services) THEN None
    ELSE LET service == services[i]
             darwin_scheduled_time == ParseHM(SplitStar(service.std))
         IN  IF darwin_scheduled_time = Bad
             THEN ScanBoard(services, i + 1, tfl_dep_time, destination_crs)
             ELSE IF ~TimeMatches(darwin_scheduled_time, tfl_dep_time)
             THEN ScanBoard(services, i + 1, tfl_dep_time, destination_crs)
             ELSE IF service.details.k = "ValueError"
             THEN ScanBoard(services, i + 1, tfl_dep_time, destination_crs)
             ELSE IF service.details.k = "error"
             THEN None
             ELSE MatchedService(service, destination_crs)

get_darwin_live_data(departure_crs, scheduled_dep_time, destination_crs) ==
    IF ~DARWIN_SESSION THEN None
    ELSE LET board == boards[<<departure_crs, destination_crs>>]
             tfl_dep_time == ParseHM(scheduled_dep_time)
         IN  IF board.k = "error" \/ tfl_dep_time = Bad THEN None
             ELSE ScanBoard(board.train_services, 1, tfl_dep_time,
                            destination_crs)

---------------------------------------------------------------------------
(* is_valid_train_journey *)

IsRail(leg) == leg.mode \in RAIL_MODES
RailLegs(j) == SelectSeq(j.legs, IsRail)

is_valid_loose(j) ==
    LET rail_legs == RailLegs(j)
    IN  IF Len(rail_legs) = 1 THEN [valid |-> TRUE, type |-> "Direct"]
        ELSE IF Len(rail_legs) = 2
        THEN [valid |-> TRUE, type |-> "One Change"]
        ELSE [valid |-> FALSE, type |-> "Not Rail"]

is_valid_train_journey(j) ==
    LET rail_legs == RailLegs(j)
    IN  IF Len(rail_legs) = 1 THEN [valid |-> TRUE, type |-> "Direct"]
        ELSE IF /\ Len(rail_legs) = 2
                /\ Len(j.legs) = 3
                /\ j.legs[2].mode = "walking"
        THEN [valid |-> TRUE, type |-> "One Change"]
        ELSE [valid |-> FALSE, type |-> "Not Rail"]

---------------------------------------------------------------------------
(* process_journey *)

(* f"{n} min" *)
Min(n) == [k |-> "min", v |-> n]

(* leg.get('status', 'On Time') *)
StatusOf(leg) == IF "status" \in DOMAIN leg THEN leg.status ELSE "On Time"

(* The else branches: no live data for the leg *)
FallbackDropsFields(leg_data, scheduled_arr) == leg_data

FallbackLive(leg_data, scheduled_arr) ==
    [live_arrival |-> scheduled_arr,
     departurePlatform |-> TBC,
     arrivalPlatform |-> TBC] @@ leg_data

(* Minutes from dep_dt to arr_dt, a day added when arr_dt < dep_dt *)
DurationNoWrap(dep, arr) == arr - dep

DurationMinutes(dep, arr) ==
    IF arr < dep THEN (arr + MinutesPerDay) - dep ELSE arr - dep

(* The leg's record once darwin_data is there *)
LiveLeg(leg_data, darwin_data, journey_type, leg_idx) ==
    LET base == [live_arrival |-> darwin_data.liveArrival,
                 departurePlatform |-> darwin_data.departurePlatform,
                 arrivalPlatform |-> darwin_data.arrivalPlatform] @@ leg_data
    IN  IF journey_type = "One Change" /\ leg_idx = 0
        THEN [arrivalPlatform_ClaphamJunction |->
                  darwin_data.arrivalPlatform] @@ base
        ELSE IF journey_type = "One Change" /\ leg_idx = 2
        THEN [departurePlatform_ClaphamJunction |->
                  darwin_data.departurePlatform] @@ base
        ELSE base

(* One pass of the loop body for a rail leg; acc holds legs,
   overall_arrival_time and total_duration *)
RailLeg(j, journey_type, journey_start_time, leg_idx, acc) ==
    LET leg == j.legs[leg_idx + 1]
        train_legs == RailLegs(j)
        origin_name == leg.departurePoint
        destination_name == leg.arrivalPoint
        scheduled_dep == TflToHM(leg.scheduledDepartureTime)
        scheduled_arr == TflToHM(leg.scheduledArrivalTime)
    IN  IF IsRaise(scheduled_dep) \/ IsRaise(scheduled_arr) THEN ValueError
        ELSE
        LET leg_data == [origin |-> StripRailStation(origin_name),
                         destination |-> StripRailStation(destination_name),
                         departure |-> scheduled_dep,
                         arrival |-> scheduled_arr,
                         status |-> StatusOf(leg)]
            origin_crs == CrsGet(origin_name)
            destination_crs == CrsGet(destination_name)
        IN  IF Truthy(origin_crs) /\ Truthy(destination_crs)
            THEN LET darwin_data ==
                         get_darwin_live_data(origin_crs.v, scheduled_dep,
                                              destination_crs.v)
                 IN  IF darwin_data # None
                     THEN LET arr == ParseHM(darwin_data.liveArrival)
                              dep == ParseHM(journey_start_time)
                          IN  [legs |-> Append(acc.legs,
                                   LiveLeg(leg_data, darwin_data,
                                           journey_type, leg_idx)),
                               overall_arrival_time |->
                                   IF leg = train_legs[Len(train_legs)]
                                   THEN darwin_data.liveArrival
                                   ELSE acc.overall_arrival_time,
                               total_duration |->
                                   IF leg = train_legs[Len(train_legs)]
                                      /\ arr # Bad
                                   THEN Min(DurationMinutes(dep, arr))
                                   ELSE acc.total_duration]
                     ELSE [acc EXCEPT !.legs =
                              Append(@, FallbackLive(leg_data, scheduled_arr))]
            ELSE [acc EXCEPT !.legs =
                     Append(@, FallbackLive(leg_data, scheduled_arr))]

(* The loop body for a walking leg *)
TransferLeg(leg) ==
    [type |-> "transfer",
     location |-> StripRailStation(leg.departurePoint),
     transferTime |-> Min(leg.duration)]

(* for leg_idx, leg in enumerate(journey_legs) *)
RECURSIVE LegLoop(_, _, _, _, _)
LegLoop(j, journey_type, journey_start_time, leg_idx, acc) ==
    IF leg_idx >= Len(j.legs) THEN acc
    ELSE LET leg == j.legs[leg_idx + 1]
             next == IF IsRail(leg)
                     THEN RailLeg(j, journey_type, journey_start_time,
                                  leg_idx, acc)
                     ELSE IF leg.mode = "walking"
                     THEN [acc EXCEPT !.legs = Append(@, TransferLeg(leg))]
                     ELSE acc
         IN  IF IsRaise(next) THEN next
             ELSE LegLoop(j, journey_type, journey_start_time,
                          leg_idx + 1, next)

process_journey(j, journey_id) ==
    LET verdict == is_valid_train_journey(j)
    IN  IF ~verdict.valid THEN None
        ELSE
        LET journey_start_time == TflToHM(j.startDateTime)
            journey_end_time == TflToHM(j.arrivalDateTime)
        IN  IF IsRaise(journey_start_time) \/ IsRaise(journey_end_time)
            THEN ValueError
            ELSE
            LET acc == LegLoop(j, verdict.type, journey_start_time, 0,
                           [legs |-> <<>>,
                            overall_arrival_time |-> journey_end_time,
                            total_duration |-> Min(j.duration)])
            IN  IF IsRaise(acc) THEN acc
                ELSE [id |-> journey_id,
                      type |-> verdict.type,
                      departureTime |-> journey_start_time,
                      arrivalTime |-> acc.overall_arrival_time,
                      totalDuration |-> acc.total_duration,
                      status |-> StatusOf(j.legs[1]),
                      legs |-> acc.legs]

IsJourney(r) == "id" \in DOMAIN r

---------------------------------------------------------------------------
(* Environment shared by the specifications *)

CRSCodes == {STREATHAM_COMMON_CRS, CLAPHAM_JUNCTION_CRS, IMPERIAL_WHARF_CRS}
NoServices == [p \in CRSCodes \X CRSCodes |-> Board(<<>>)]

Point(crs, eta, sta, platform) ==
    [crs |-> crs, eta |-> eta, sta |-> sta, platform |-> platform]
Details(points) == [k |-> "details", calling_point |-> points]
Service(std, platform, details) ==
    [std |-> std, platform |-> platform, details |-> details]

(* Sequences of length 0..n over S *)
SeqsUpTo(S, n) == UNION {[1..m -> S] : m \in 0..n}

---------------------------------------------------------------------------
(* SpecDarwin: one call of get_darwin_live_data for the 07:25 from
   Streatham Common to Clapham Junction, over every board of up to MaxBoard
   services *)

DarwinQuery ==
    [departure_crs |-> STREATHAM_COMMON_CRS,
     scheduled_dep_time |-> HM(At(7, 25)),
     destination_crs |-> CLAPHAM_JUNCTION_CRS]

DarwinStds ==
    {HM(At(7, 24)), HM(At(7, 25)), Starred(At(7, 25)), HM(At(7, 28)),
     Txt("Cancelled")}

DarwinDetails ==
    {Details(<<Point(CLAPHAM_JUNCTION_CRS, HM(At(7, 36)), HM(At(7, 35)),
                     Txt("9"))>>),
     [k |-> "ValueError"], [k |-> "error"]}

DarwinServices ==
    {Service(std, platform, details) :
        std \in DarwinStds, platform \in {Txt("1"), Txt("2")},
        details \in DarwinDetails}

DarwinInit ==
    /\ pc = "lookup"
    /\ weekend = FALSE
    /\ DARWIN_SESSION \in BOOLEAN
    /\ \E b \in {BoardError} \cup
                {Board(ss) : ss \in SeqsUpTo(DarwinServices, MaxBoard)} :
          boards = [NoServices EXCEPT
                       ![<<DarwinQuery.departure_crs,
                           DarwinQuery.destination_crs>>] = b]
    /\ journeys = <<>>
    /\ idx = 0
    /\ processed = <<>>
    /\ document = <<>>
    /\ journey = None
    /\ result = None
    /\ query = DarwinQuery
    /\ live = None

Lookup ==
    /\ pc = "lookup"
    /\ live' = get_darwin_live_data(query.departure_crs,
                                    query.scheduled_dep_time,
                                    query.destination_crs)
    /\ pc' = "looked"
    /\ UNCHANGED <<weekend, DARWIN_SESSION, boards, journeys, idx, processed,
                   document, journey, result, query>>

DarwinNext == Lookup

SpecDarwin == DarwinInit /\ [][DarwinNext]_vars

(* The board the query of SpecDarwin reads *)
QBoard == boards[<<query.departure_crs, query.destination_crs>>]
QServices == IF QBoard.k = "board" THEN QBoard.train_services ELSE <<>>
QDep == ParseHM(query.scheduled_dep_time)
StdOf(i) == ParseHM(SplitStar(QServices[i].std))
Least(S) == CHOOSE i \in S : \A j \in S : i <= j

(* The services within 2 minutes of the scheduled departure *)
WithinTolerance == {i \in 1..Len(QServices) :
                       /\ StdOf(i) # Bad
                       /\ StdOf(i) - QDep <= 2
                       /\ QDep - StdOf(i) <= 2}

(* C3 as stated: a service matches when its scheduled time parses and lies
   within 120 seconds (2 minutes) of the scheduled departure, and the first
   such service in board order is the one the result is built from.  Stated
   for boards whose service-details calls all succeed. *)
C3_ToleranceMatch ==
    (/\ pc = "looked"
     /\ DARWIN_SESSION
     /\ QBoard.k = "board"
     /\ \A i \in 1..Len(QServices) : QServices[i].details.k = "details")
    => live = IF WithinTolerance = {} THEN None
              ELSE MatchedService(QServices[Least(WithinTolerance)],
                                  query.destination_crs)

(* The services scheduled at the departure's minute whose details call does
   not raise ValueError *)
ExactMatches == {i \in 1..Len(QServices) :
                    /\ StdOf(i) = QDep
                    /\ QServices[i].details.k # "ValueError"}

(* C3 amended: a service matches exactly when its scheduled time (the text
   before any '*') parses as HH:MM and equals the scheduled departure to the
   minute; the result is built from the first match in board order whose
   service-details call does not raise ValueError, unparsable services are
   skipped without ending the search, and any other failure of the session,
   the board call or the details call gives no result. *)
C3_ExactMatch ==
    pc = "looked" =>
        live = IF /\ DARWIN_SESSION
                  /\ QBoard.k = "board"
                  /\ ExactMatches # {}
                  /\ QServices[Least(ExactMatches)].details.k # "error"
               THEN MatchedService(QServices[Least(ExactMatches)],
                                   query.destination_crs)
               ELSE None

(* C3 witness: an unparsable service and a service one minute early come
   first on the board, and the lookup returned the later exact match *)
C3_Witness ==
    /\ pc = "looked"
    /\ live # None
    /\ Len(QServices) >= 2
    /\ StdOf(1) \in {Bad, QDep - 1}
    /\ Least(ExactMatches) = 2

---------------------------------------------------------------------------
(* SpecJourney: one call of process_journey, over every route of up to
   MaxLegs legs and every answer Darwin gives for its two station pairs *)

Leg(mode, from, to, dep, arr, dur) ==
    [mode |-> mode, departurePoint |-> from, arrivalPoint |-> to,
     scheduledDepartureTime |-> dep, scheduledArrivalTime |-> arr,
     duration |-> dur]

RailSC == Leg("national-rail", SC, CJ, DT(0, At(7, 25), 0),
              DT(0, At(7, 35), 0), 10)
RailCI == Leg("overground", CJ, IW, DT(0, At(7, 45), 0),
              DT(0, At(7, 52), 30), 7)
RailBI == Leg("national-rail", BAL, IW, DT(0, At(7, 30), 0),
              DT(0, At(7, 50), 0), 20)
Walk == Leg("walking", CJ, CJ, DT(0, At(7, 35), 0), DT(0, At(7, 40), 0), 5)
Bus == Leg("bus", CJ, IW, DT(0, At(7, 40), 0), DT(0, At(7, 55), 0), 15)

JourneyLegs == {RailSC, RailCI, RailBI, Walk, Bus}

Route(start, legs) ==
    [startDateTime |-> start, arrivalDateTime |-> DT(0, At(7, 52), 0),
     duration |-> 27, legs |-> legs]

(* Darwin's possible answers about the service leaving at std for dest *)
Answers(std, dest) ==
    {BoardError,
     Board(<<>>),
     Board(<<Service(HM(std), Txt("4"),
                     Details(<<Point(dest, Starred(At(8, 5)),
                                     HM(At(8, 0)), Txt("2"))>>))>>),
     Board(<<Service(Starred(std), None,
                     Details(<<Point(dest, Txt("On time"),
                                     HM(At(8, 0)), None)>>))>>),
     Board(<<Service(HM(std), Txt("4"),
                     Details(<<Point(dest, None, HM(At(0, 10)),
                                     Txt("1"))>>))>>),
     Board(<<Service(HM(std), Txt("4"), [k |-> "error"])>>)}

JourneyInit ==
    /\ pc = "call"
    /\ weekend = FALSE
    /\ \/ /\ DARWIN_SESSION = FALSE
          /\ boards = NoServices
       \/ /\ DARWIN_SESSION = TRUE
          /\ \E a \in Answers(At(7, 25), CLAPHAM_JUNCTION_CRS),
                b \in Answers(At(7, 45), IMPERIAL_WHARF_CRS) :
                boards = [NoServices EXCEPT
                    ![<<STREATHAM_COMMON_CRS, CLAPHAM_JUNCTION_CRS>>] = a,
                    ![<<CLAPHAM_JUNCTION_CRS, IMPERIAL_WHARF_CRS>>] = b]
    /\ journeys = <<>>
    /\ idx = 0
    /\ processed = <<>>
    /\ document = <<>>
    /\ \E legs \in SeqsUpTo(JourneyLegs, MaxLegs) :
          journey = Route(DT(0, At(7, 25), 0), legs)
    /\ result = None
    /\ query = None
    /\ live = None

CallProcessJourney ==
    /\ pc = "call"
    /\ result' = process_journey(journey, 1)
    /\ pc' = "processed"
    /\ UNCHANGED <<weekend, DARWIN_SESSION, boards, journeys, idx, processed,
                   document, journey, query, live>>

JourneyNext == CallProcessJourney

SpecJourney == JourneyInit /\ [][JourneyNext]_vars

RailCount == Len(RailLegs(journey))
IsTransfer(l) == "type" \in DOMAIN l /\ l.type = "transfer"

(* Two rail legs with exactly one walking leg between them *)
SeparatedByOneWalk ==
    \E i \in 1..(Len(journey.legs) - 2) :
        /\ IsRail(journey.legs[i])
        /\ journey.legs[i + 1].mode = "walking"
        /\ IsRail(journey.legs[i + 2])

(* C1 as stated: one rail leg gives Direct, two rail legs separated by one
   walking leg give One Change, every other route is rejected *)
C1_SeparatedIsOneChange ==
    pc = "processed" =>
        IF RailCount = 1
        THEN IsJourney(result) /\ result.type = "Direct"
        ELSE IF RailCount = 2 /\ SeparatedByOneWalk
        THEN IsJourney(result) /\ result.type = "One Change"
        ELSE result = None

(* C1 amended: one rail leg gives Direct; two rail legs give One Change
   exactly when the route is three legs long with a walking leg in the
   middle (rail, walking, rail); every other route is rejected, also one
   whose two rail legs have a walking leg between them but further legs
   before or after *)
C1_ThreeLegOneChange ==
    pc = "processed" =>
        IF RailCount = 1
        THEN IsJourney(result) /\ result.type = "Direct"
        ELSE IF /\ RailCount = 2
                /\ Len(journey.legs) = 3
                /\ journey.legs[2].mode = "walking"
        THEN IsJourney(result) /\ result.type = "One Change"
        ELSE result = None

(* C1 witness: a rail, walking, rail route came out as One Change *)
C1_Witness ==
    /\ pc = "processed"
    /\ RailCount = 2
    /\ IsJourney(result)
    /\ result.type = "One Change"
    /\ Len(result.legs) = 3

(* The input legs that produce an output leg, in order *)
Emits(leg) == IsRail(leg) \/ leg.mode = "walking"
KeptLegs == SelectSeq(journey.legs, Emits)

(* The live lookup process_journey makes for a rail leg gives nothing *)
NoLive(leg) ==
    \/ ~Truthy(CrsGet(leg.departurePoint))
    \/ ~Truthy(CrsGet(leg.arrivalPoint))
    \/ get_darwin_live_data(CrsGet(leg.departurePoint).v,
                            HM(leg.scheduledDepartureTime.hm),
                            CrsGet(leg.arrivalPoint).v) = None

HasLiveFields(l) ==
    /\ {"live_arrival", "departurePlatform", "arrivalPlatform"}
           \subseteq DOMAIN l
    /\ l.live_arrival.k # "none"
    /\ l.departurePlatform.k # "none"
    /\ l.arrivalPlatform.k # "none"

(* C4: an accepted route is returned as a journey whatever the live lookups
   do; every travel leg carries the three live fields, none of them null;
   a rail leg whose lookup gave nothing has live_arrival equal to its
   scheduled arrival and both platforms 'TBC' *)
C4_FallbackToScheduled ==
    pc = "processed" =>
        /\ is_valid_train_journey(journey).valid => IsJourney(result)
        /\ IsJourney(result) =>
              /\ Len(result.legs) = Len(KeptLegs)
              /\ \A n \in 1..Len(KeptLegs) :
                    IsRail(KeptLegs[n]) =>
                        /\ HasLiveFields(result.legs[n])
                        /\ NoLive(KeptLegs[n]) =>
                              /\ result.legs[n].live_arrival =
                                     HM(KeptLegs[n].scheduledArrivalTime.hm)
                              /\ result.legs[n].departurePlatform = TBC
                              /\ result.legs[n].arrivalPlatform = TBC

(* C4 witness: with a session, one rail leg of a One Change journey got no
   live data (board error, no match, details failure) and was emitted with
   its scheduled arrival, while the other got live data *)
C4_Witness ==
    /\ pc = "processed"
    /\ DARWIN_SESSION
    /\ IsJourney(result)
    /\ result.type = "One Change"
    /\ NoLive(journey.legs[1])
    /\ ~NoLive(journey.legs[3])
    /\ result.legs[1].live_arrival = HM(At(7, 35))

(* The live data of the last rail leg, None when there is none *)
LastRail == RailLegs(journey)[RailCount]
LastLive ==
    IF NoLive(LastRail) THEN None
    ELSE get_darwin_live_data(CrsGet(LastRail.departurePoint).v,
                              HM(LastRail.scheduledDepartureTime.hm),
                              CrsGet(LastRail.arrivalPoint).v)

(* C5: with a live arrival A of the last rail leg that parses as HH:MM,
   totalDuration is (A - D) mod 1440 minutes, D the journey's scheduled
   departure; with a live arrival that does not parse, or no live match,
   totalDuration is the scheduled duration *)
C5_LiveDuration ==
    (pc = "processed" /\ IsJourney(result)) =>
        LET D == journey.startDateTime.hm
            A == IF LastLive = None THEN Bad ELSE ParseHM(LastLive.liveArrival)
        IN  IF A # Bad
            THEN /\ result.totalDuration = Min((A - D) % MinutesPerDay)
                 /\ result.totalDuration.v \in 0..(MinutesPerDay - 1)
            ELSE result.totalDuration = Min(journey.duration)

(* C5 witness: the live arrival 00:10 is earlier on the clock than the
   07:25 departure and the duration came out as 1005 minutes *)
C5_Witness ==
    /\ pc = "processed"
    /\ IsJourney(result)
    /\ LastLive # None
    /\ LastLive.liveArrival = HM(At(0, 10))
    /\ result.totalDuration = Min(1005)

(* C7 as stated: the emitted leg sequence starts and ends with a travel leg
   and every transfer marker stands between two travel legs *)
C7_TransfersBetweenTravel ==
    (pc = "processed" /\ IsJourney(result)) =>
        LET L == result.legs
        IN  /\ Len(L) >= 1
            /\ ~IsTransfer(L[1])
            /\ ~IsTransfer(L[Len(L)])
            /\ \A n \in 2..(Len(L) - 1) :
                  IsTransfer(L[n]) =>
                      ~IsTransfer(L[n - 1]) /\ ~IsTransfer(L[n + 1])

---------------------------------------------------------------------------
(* Spec: one run of main: get_journey_plan, the loop of
   fetch_and_process_tfl_data over the routes TfL returned, and the write of
   OUTPUT_FILE *)

DirectLate == Route(DT(0, At(7, 45), 0), <<RailSC>>)
ChangeEarly == Route(DT(0, At(7, 10), 0), <<RailSC, Walk, RailCI>>)
BusOnly == Route(DT(0, At(7, 30), 0), <<Bus>>)
BadStart == Route(Txt("not a time"), <<RailSC>>)

RoutePool == {DirectLate, ChangeEarly, BusOnly, BadStart}

(* What OUTPUT_FILE may hold before the run *)
NoFile == <<[k |-> "absent"]>>
StaleDocument ==
    <<[id |-> 1, type |-> "Direct", departureTime |-> HM(At(6, 0)),
       arrivalTime |-> HM(At(6, 30)), totalDuration |-> Min(30),
       status |-> "On Time", legs |-> <<>>]>>
PriorDocuments == {NoFile, StaleDocument}

MainBoards ==
    [NoServices EXCEPT
        ![<<STREATHAM_COMMON_CRS, CLAPHAM_JUNCTION_CRS>>] =
            Board(<<Service(HM(At(7, 25)), Txt("4"),
                            Details(<<Point(CLAPHAM_JUNCTION_CRS,
                                            HM(At(7, 37)), HM(At(7, 35)),
                                            Txt("2"))>>))>>),
        ![<<CLAPHAM_JUNCTION_CRS, IMPERIAL_WHARF_CRS>>] = BoardError]

Init ==
    /\ pc = "start"
    /\ weekend \in BOOLEAN
    /\ DARWIN_SESSION \in BOOLEAN
    /\ boards = MainBoards
    /\ journeys = <<>>
    /\ idx = 0
    /\ processed = <<>>
    /\ document \in PriorDocuments
    /\ journey = None
    /\ result = None
    /\ query = None
    /\ live = None

(* get_journey_plan returned None (a request error) or a body without
   'journeys': fetch_and_process_tfl_data returns [] *)
FetchPlanFails ==
    /\ pc = "start"
    /\ processed' = <<>>
    /\ pc' = "fetched"
    /\ UNCHANGED <<weekend, DARWIN_SESSION, boards, journeys, idx, document,
                   journey, result, query, live>>

(* get_journey_plan returned a body with a 'journeys' list *)
FetchPlanOk ==
    /\ pc = "start"
    /\ \E js \in SeqsUpTo(RoutePool, MaxRoutes) : journeys' = js
    /\ processed' = <<>>
    /\ idx' = 1
    /\ pc' = "loop"
    /\ UNCHANGED <<weekend, DARWIN_SESSION, boards, document, journey,
                   result, query, live>>

(* The id handed to process_journey *)
JourneyIdFromEnumerate == idx

JourneyId == Len(processed) + 1

(* len(processed) >= num_journeys, with num_journeys = NUM_JOURNEYS *)
CapReachedLate(n) == n > NUM_JOURNEYS

CapReached(n) == n >= NUM_JOURNEYS

(* processed.append(processed_journey) *)
AddProcessedFront(p, r) == <<r>> \o p

AddProcessed(p, r) == Append(p, r)

(* except Exception: print, continue *)
OnProcessErrorAbort ==
    /\ pc' = "fetched"
    /\ processed' = <<>>
    /\ UNCHANGED idx

OnProcessError ==
    /\ idx' = idx + 1
    /\ pc' = "loop"
    /\ UNCHANGED processed

(* One pass of the loop over journeys *)
ProcessNext ==
    /\ pc = "loop"
    /\ idx <= Len(journeys)
    /\ LET processed_journey == process_journey(journeys[idx], JourneyId)
       IN  IF IsRaise(processed_journey) THEN OnProcessError
           ELSE IF processed_journey = None
           THEN /\ idx' = idx + 1
                /\ pc' = "loop"
                /\ UNCHANGED processed
           ELSE /\ processed' = AddProcessed(processed, processed_journey)
                /\ IF CapReached(Len(processed'))
                   THEN pc' = "fetched" /\ UNCHANGED idx
                   ELSE pc' = "loop" /\ idx' = idx + 1
    /\ UNCHANGED <<weekend, DARWIN_SESSION, boards, journeys, document,
                   journey, result, query, live>>

(* The loop ran out of journeys *)
LoopExhausted ==
    /\ pc = "loop"
    /\ idx > Len(journeys)
    /\ pc' = "fetched"
    /\ UNCHANGED <<weekend, DARWIN_SESSION, boards, journeys, idx, processed,
                   document, journey, result, query, live>>

(* main: what OUTPUT_FILE holds after the if data / else *)
WrittenAlways(doc, data) == data

Written(doc, data) == IF data # <<>> THEN data ELSE doc

WriteOutput ==
    /\ pc = "fetched"
    /\ document' = Written(document, processed)
    /\ pc' = "done"
    /\ UNCHANGED <<weekend, DARWIN_SESSION, boards, journeys, idx, processed,
                   journey, result, query, live>>

Next ==
    \/ FetchPlanFails
    \/ FetchPlanOk
    \/ ProcessNext
    \/ LoopExhausted
    \/ WriteOutput

Spec == Init /\ [][Next]_vars

(* The loop of fetch_and_process_tfl_data as a function of the list it is
   given, from position i with acc already processed *)
RECURSIVE FetchFrom(_, _, _)
FetchFrom(js, i, acc) ==
    IF i > Len(js) THEN acc
    ELSE LET r == process_journey(js[i], Len(acc) + 1)
         IN  IF IsRaise(r) \/ r = None THEN FetchFrom(js, i + 1, acc)
             ELSE IF Len(acc) + 1 >= NUM_JOURNEYS THEN Append(acc, r)
             ELSE FetchFrom(js, i + 1, Append(acc, r))

Fetched == pc \in {"fetched", "done"}
Smaller(a, b) == IF a <= b THEN a ELSE b
(* The n-th smallest element of a set of numbers *)
Nth(S, n) == CHOOSE i \in S : Cardinality({j \in S : j <= i}) = n

(* The positions of the source list whose route processes to a journey *)
Accepted == {i \in 1..Len(journeys) :
                IsJourney(process_journey(journeys[i], 1))}

(* C2 as stated: a weekend run emits at most 1 journey, Direct only, departing
   07:20 or later; a weekday run emits at most 2, One Change only, departing
   07:25 or later *)
C2_DayOfWeekPolicy ==
    Fetched =>
        IF weekend
        THEN /\ Len(processed) <= 1
             /\ \A n \in 1..Len(processed) :
                   /\ processed[n].type = "Direct"
                   /\ ParseHM(processed[n].departureTime) >= At(7, 20)
        ELSE /\ Len(processed) <= 2
             /\ \A n \in 1..Len(processed) :
                   /\ processed[n].type = "One Change"
                   /\ ParseHM(processed[n].departureTime) >= At(7, 25)

(* C2 amended: on every run, weekend or weekday, the output holds at most
   NUM_JOURNEYS = 4 journeys, each Direct or One Change; no route is left out
   for its type, its departure time or the day of the week: a run that ends
   with fewer than 4 journeys emitted every route that processes to one *)
C2_FirstFourOfEitherType ==
    /\ Len(processed) <= NUM_JOURNEYS
    /\ \A n \in 1..Len(processed) :
          processed[n].type \in {"Direct", "One Change"}
    /\ (Fetched /\ Len(processed) < NUM_JOURNEYS) =>
          Len(processed) = Cardinality(Accepted)

(* C2 witness: a weekend run ended with four journeys, a One Change one that
   leaves at 07:10 among them *)
C2_Witness ==
    /\ Fetched
    /\ weekend
    /\ Len(processed) = NUM_JOURNEYS
    /\ \E n \in 1..Len(processed) :
          /\ processed[n].type = "One Change"
          /\ processed[n].departureTime = HM(At(7, 10))

(* C6: the ids of the processed journeys are 1, 2, ..., n in output order *)
C6_DenseIds ==
    \A n \in 1..Len(processed) : processed[n].id = n

(* C6 witness: the source list starts with a route that raises and a route
   that is rejected, and two journeys came out after them *)
C6_Witness ==
    /\ Fetched
    /\ Len(journeys) >= 4
    /\ journeys[1] = BadStart
    /\ journeys[2] = BusOnly
    /\ Len(processed) = 2

(* C8: the output is, in source order, the first k accepted routes, k the
   smaller of the cap and the number of accepted routes, and the loop stops
   at the route that reaches the cap *)
C8_FirstAcceptedInSourceOrder ==
    /\ pc = "loop" =>
          /\ Len(processed) < NUM_JOURNEYS
          /\ Len(processed) = Cardinality({i \in Accepted : i < idx})
    /\ Fetched =>
          LET k == Smaller(NUM_JOURNEYS, Cardinality(Accepted))
          IN  /\ Len(processed) = k
              /\ \A n \in 1..k :
                    processed[n] =
                        process_journey(journeys[Nth(Accepted, n)], n)
              /\ k = NUM_JOURNEYS => idx = Nth(Accepted, k)

(* C8 witness: five accepted routes came from the source, the 07:45 one
   before a 07:10 one; the run stopped at the fourth and left the fifth out *)
C8_Witness ==
    /\ Fetched
    /\ Cardinality(Accepted) = 5
    /\ idx = 4
    /\ Len(processed) = 4
    /\ processed[1].departureTime = HM(At(7, 45))
    /\ processed[2].departureTime = HM(At(7, 10))

(* C9 as stated: after the run the document is the list the run assembled *)
C9_DocumentIsRunOutput ==
    pc = "done" => document = processed

(* C9 amended: a run that assembles a non-empty list replaces the document
   with exactly that list; a run that assembles an empty list completes and
   leaves the document as it was before the run *)
C9_ReplacedUnlessEmpty ==
    [][pc' = "done" =>
          document' = IF processed' # <<>> THEN processed' ELSE document]_vars

(* C9 witness: a run over a source list without a usable route ended and the
   earlier run's content is still in the document *)
C9_Witness ==
    /\ pc = "done"
    /\ Len(journeys) >= 1
    /\ processed = <<>>
    /\ document = StaleDocument

(* The routes whose processing raises *)
Raises(r) == IsRaise(process_journey(r, 1))
NotRaises(r) == ~Raises(r)

(* C10: the run ends with the output it would have without the routes whose
   processing raises *)
C10_FailingRouteIsolated ==
    Fetched => processed = FetchFrom(SelectSeq(journeys, NotRaises), 1, <<>>)

(* C10 witness: a route that raises stands between two routes that came out *)
C10_Witness ==
    /\ Fetched
    /\ Len(journeys) >= 3
    /\ Raises(journeys[2])
    /\ Len(processed) >= 2
    /\ processed[2].departureTime = HM(journeys[3].startDateTime.hm)

====
